---- MODULE Spec2Model ----
(***************************************************************************)
(* PerformanceService: the data-access layer for "performance" records.   *)
(* The service mediates between the record store (table "performances")   *)
(* and the remote folder service (googleDriveService).  Every await in    *)
(* the service is one step of an invocation, so that invocations of       *)
(* different callers interleave at the external calls.                    *)
(***************************************************************************)
EXTENDS Integers, Sequences, FiniteSets, TLC

\* ------------------------------------------------------------------ bounds
MaxCalls == 3        \* invocations of the service in one behaviour
MaxRows == 2         \* rows the store inserts in one behaviour
MaxFolders == 2      \* folders the folder service creates in one behaviour

\* the callers whose invocations run concurrently
Procs == {"c1", "c2"}

\* ------------------------------------------------------- JavaScript values
Undefined == [t |-> "undefined"]
Null == [t |-> "null"]
Str(s) == [t |-> "string", s |-> s]
Arr(a) == [t |-> "array", a |-> a]
Bool(b) == [t |-> "boolean", b |-> b]
Obj(o) == [t |-> "object", o |-> o]

\* ToBoolean: undefined, null, "" and false are falsy; arrays and objects
\* (the empty array included) are truthy.
Truthy(v) ==
    CASE v.t = "undefined" -> FALSE
      [] v.t = "null" -> FALSE
      [] v.t = "string" -> v.s # ""
      [] v.t = "boolean" -> v.b
      [] OTHER -> TRUE

\* a || b
Or(a, b) == IF Truthy(a) THEN a ELSE b

\* --------------------------------------------------- identifiers and inputs
RowId(n) == "p" \o ToString(n)
FolderId(n) == "fld_" \o ToString(n)

RowIds == {RowId(n) : n \in 1 .. MaxRows}
\* ids a caller may pass: every id the store can assign and one it never does
CallerIds == RowIds \cup {"missing-id"}

Columns == {"id", "title", "description", "cover_image", "start_date",
            "end_date", "tagged_users", "created_by", "drive_folder_id",
            "created_at", "updated_at"}

\* CreatePerformanceData; an omitted optional field reads as undefined.
CreateData(title, description, coverImage, startDate, endDate, taggedUsers, createdBy) ==
    [title |-> title, description |-> description, coverImage |-> coverImage,
     startDate |-> startDate, endDate |-> endDate, taggedUsers |-> taggedUsers,
     createdBy |-> createdBy]

\* UpdatePerformanceData: Partial<CreatePerformanceData> and the id.
UpdateData(id, title, description, coverImage, startDate, endDate, taggedUsers, createdBy) ==
    [id |-> id, title |-> title, description |-> description,
     coverImage |-> coverImage, startDate |-> startDate, endDate |-> endDate,
     taggedUsers |-> taggedUsers, createdBy |-> createdBy]

U == Undefined

\* the inputs callers pass: every optional field omitted, empty and set,
\* alone and together
CreateInputs ==
    { CreateData(Str("Winter Concert"), U, U, U, U, U, Str("u1")),
      CreateData(Str("Gala"), Str("d"), Str("c"), Str("s"), Str("e"),
                 Arr(<<"u2", "u3">>), Str("u1")),
      CreateData(Str("Recital"), Str(""), U, U, U, Arr(<<>>), Str("u2")) }

UpdateInputs ==
    { UpdateData(i, Str("Spring"), U, U, U, U, U, U) : i \in CallerIds } \cup
    { UpdateData(i, U, Str("x"), U, U, U, U, U) : i \in RowIds } \cup
    { UpdateData(i, U, U, Str("x"), U, U, U, U) : i \in RowIds } \cup
    { UpdateData(i, U, U, U, Str("x"), U, U, U) : i \in RowIds } \cup
    { UpdateData(i, U, U, U, U, Str("x"), U, U) : i \in RowIds } \cup
    { UpdateData(i, U, U, U, U, U, Arr(<<"u4">>), U) : i \in RowIds } \cup
    { UpdateData(i, U, U, U, U, U, U, Str("u9")) : i \in RowIds } \cup
    { UpdateData(i, U, U, U, U, U, U, U) : i \in RowIds } \cup
    { UpdateData(i, Str("Autumn"), Str(""), Str("y"), Str("y"), Str("y"),
                 Arr(<<>>), Str("u9")) : i \in RowIds }

\* -------------------------------------------------------------------- state
VARIABLES
    store,        \* the table "performances": row id -> row
    nextRow,      \* rows inserted so far (the store assigns the next id)
    folders,      \* folders that exist in the folder service
    nextFolder,   \* folders created so far (the service returns fresh ids)
    created,      \* history: every folder id createFolder has returned
    inserted,     \* history: row id -> the identity columns the insert wrote
    pc,           \* per caller: the await the invocation is suspended at
    op,           \* per caller: the public operation invoked
    arg,          \* per caller: its argument
    local,        \* per caller: driveFolderId (create) / performance (delete)
    calls,        \* per caller: the external calls of this invocation, in order
    result,       \* per caller: how the invocation completed
    ncalls        \* invocations begun so far

vars == <<store, nextRow, folders, nextFolder, created, inserted,
          pc, op, arg, local, calls, result, ncalls>>

storeVars == <<store, nextRow, inserted>>
folderVars == <<folders, nextFolder, created>>

\* how an invocation completes
NoResult == [k |-> "none"]
Return(v) == [k |-> "return", v |-> v]
Throw == [k |-> "throw"]

\* one external call of an invocation: the callee, its argument, its outcome
CallRec(f, a, out) == [f |-> f, a |-> a, out |-> out]

Init ==
    /\ store = <<>>
    /\ nextRow = 0
    /\ folders = {}
    /\ nextFolder = 0
    /\ created = {}
    /\ inserted = <<>>
    /\ pc = [p \in Procs |-> "idle"]
    /\ op = [p \in Procs |-> "none"]
    /\ arg = [p \in Procs |-> Undefined]
    /\ local = [p \in Procs |-> Undefined]
    /\ calls = [p \in Procs |-> <<>>]
    /\ result = [p \in Procs |-> NoResult]
    /\ ncalls = 0


\* ------------------------------------------------- the service's mappings
\* InsertValues with "driveFolderId || ''" for the folder column.
InsertValuesEmptyFolder(performanceData, driveFolderId) ==
    [title |-> performanceData.title,
     description |-> performanceData.description,
     cover_image |-> performanceData.coverImage,
     start_date |-> performanceData.startDate,
     end_date |-> performanceData.endDate,
     tagged_users |-> performanceData.taggedUsers,
     created_by |-> performanceData.createdBy,
     drive_folder_id |-> Or(driveFolderId, Str(""))]

\* InsertValues falling back to the title as the folder column.
InsertValuesTitleFolder(performanceData, driveFolderId) ==
    [title |-> performanceData.title,
     description |-> performanceData.description,
     cover_image |-> performanceData.coverImage,
     start_date |-> performanceData.startDate,
     end_date |-> performanceData.endDate,
     tagged_users |-> performanceData.taggedUsers,
     created_by |-> performanceData.createdBy,
     drive_folder_id |-> Or(driveFolderId, performanceData.title)]

\* The object createPerformance hands to insert().
InsertValues(performanceData, driveFolderId) ==
    [title |-> performanceData.title,
     description |-> performanceData.description,
     cover_image |-> performanceData.coverImage,
     start_date |-> performanceData.startDate,
     end_date |-> performanceData.endDate,
     tagged_users |-> performanceData.taggedUsers,
     created_by |-> performanceData.createdBy,
     drive_folder_id |-> driveFolderId]

\* UpdateValues without the "!== undefined" tests: a full overwrite.
UpdateValuesOverwrite(performanceData) ==
    [title |-> performanceData.title,
     description |-> performanceData.description,
     cover_image |-> performanceData.coverImage,
     start_date |-> performanceData.startDate,
     end_date |-> performanceData.endDate,
     tagged_users |-> performanceData.taggedUsers]

\* UpdateValues that also copies createdBy.
UpdateValuesWithCreatedBy(performanceData) ==
    LET field == [title |-> performanceData.title,
                  description |-> performanceData.description,
                  cover_image |-> performanceData.coverImage,
                  start_date |-> performanceData.startDate,
                  end_date |-> performanceData.endDate,
                  tagged_users |-> performanceData.taggedUsers,
                  created_by |-> performanceData.createdBy]
    IN  [c \in {k \in DOMAIN field : field[k] # Undefined} |-> field[c]]

\* The object updatePerformance hands to update(): a column is a key of
\* updateData exactly when the input's field is not undefined.
UpdateValues(performanceData) ==
    LET field == [title |-> performanceData.title,
                  description |-> performanceData.description,
                  cover_image |-> performanceData.coverImage,
                  start_date |-> performanceData.startDate,
                  end_date |-> performanceData.endDate,
                  tagged_users |-> performanceData.taggedUsers]
    IN  [c \in {k \in DOMAIN field : field[k] # Undefined} |-> field[c]]

\* ToPerformance without the "|| []" of taggedUsers.
ToPerformanceRawTags(data) ==
    [id |-> data.id,
     title |-> data.title,
     description |-> Or(data.description, Undefined),
     coverImage |-> Or(data.cover_image, Undefined),
     startDate |-> Or(data.start_date, Undefined),
     endDate |-> Or(data.end_date, Undefined),
     createdAt |-> data.created_at,
     updatedAt |-> data.updated_at,
     createdBy |-> data.created_by,
     taggedUsers |-> data.tagged_users,
     driveFolderId |-> Or(data.drive_folder_id, Undefined)]

\* The mapping of a row to the Performance handed to the caller.
ToPerformance(data) ==
    [id |-> data.id,
     title |-> data.title,
     description |-> Or(data.description, Undefined),
     coverImage |-> Or(data.cover_image, Undefined),
     startDate |-> Or(data.start_date, Undefined),
     endDate |-> Or(data.end_date, Undefined),
     createdAt |-> data.created_at,
     updatedAt |-> data.updated_at,
     createdBy |-> data.created_by,
     taggedUsers |-> Or(data.tagged_users, Arr(<<>>)),
     driveFolderId |-> Or(data.drive_folder_id, Undefined)]

\* ---------------------------------------------------------- the record store
\* Row the table holds after an insert: an undefined key is not sent, so its
\* column takes its default (null for the nullable columns); id, created_at
\* and updated_at are the table's defaults.
InsertedRow(values, id, now) ==
    [c \in Columns |->
        CASE c = "id" -> Str(id)
          [] c \in {"created_at", "updated_at"} -> now
          [] OTHER -> IF values[c] = Undefined THEN Null ELSE values[c]]

\* Row the table holds after an update with the given column values.
UpdatedRow(row, values) ==
    [c \in Columns |-> IF c \in DOMAIN values THEN values[c] ELSE row[c]]

\* The columns no operation is to change after the insert.
Identity(row) ==
    [id |-> row.id, created_by |-> row.created_by,
     drive_folder_id |-> row.drive_folder_id]

\* The table without the rows whose id is the given one.
DeletedFrom(table, id) == [i \in DOMAIN table \ {id} |-> table[i]]

\* select("*").order("created_at", {ascending: false})
RECURSIVE OrderedDesc(_, _)
OrderedDesc(table, ids) ==
    IF ids = {} THEN <<>>
    ELSE LET first == CHOOSE i \in ids :
                          \A j \in ids : table[j].created_at <= table[i].created_at
         IN  <<table[first]>> \o OrderedDesc(table, ids \ {first})

\* data.map(p => ...) of getPerformances
RECURSIVE MapToPerformance(_)
MapToPerformance(rows) ==
    IF rows = <<>> THEN <<>>
    ELSE <<ToPerformance(Head(rows))>> \o MapToPerformance(Tail(rows))


\* ------------------------------------------------------------ invocations
\* A caller that is not inside an invocation may begin one.
Free(p) == pc[p] \in {"idle", "done"} /\ ncalls < MaxCalls

Begin(p, operation, argument, at, initial) ==
    /\ ncalls' = ncalls + 1
    /\ op' = [op EXCEPT ![p] = operation]
    /\ arg' = [arg EXCEPT ![p] = argument]
    /\ pc' = [pc EXCEPT ![p] = at]
    /\ local' = [local EXCEPT ![p] = initial]
    /\ calls' = [calls EXCEPT ![p] = <<>>]
    /\ result' = [result EXCEPT ![p] = NoResult]
    /\ UNCHANGED <<storeVars, folderVars>>

Finish(p, r) ==
    /\ pc' = [pc EXCEPT ![p] = "done"]
    /\ result' = [result EXCEPT ![p] = r]

Logged(p, f, a, out) ==
    calls' = [calls EXCEPT ![p] = Append(@, CallRec(f, a, out))]

\* ---- getPerformances
CallGetPerformances(p) ==
    /\ Free(p)
    /\ Begin(p, "getPerformances", Undefined, "list", Undefined)

GetPerformances(p) ==
    /\ pc[p] = "list"
    /\ \E out \in {"ok", "error", "throw"} :
          /\ Logged(p, "select", Undefined, out)
          /\ CASE out = "ok" ->
                    Finish(p, Return(Arr(MapToPerformance(
                                  OrderedDesc(store, DOMAIN store)))))
               [] out = "error" -> Finish(p, Return(Arr(<<>>)))
               [] out = "throw" -> Finish(p, Throw)
    /\ UNCHANGED <<storeVars, folderVars, op, arg, local, ncalls>>

\* ---- getPerformanceById
\* What a query ending in .single() can answer: the row when one matches,
\* an error (always possible, and the answer when no row matches), or a
\* rejection of the awaited promise.
SingleOutcomes(id) ==
    (IF id \in DOMAIN store THEN {"ok"} ELSE {}) \cup {"error", "throw"}

\* The value getPerformanceById returns on the answers that do not reject.
FoundPerformance(id, out) ==
    IF out = "ok" THEN Obj(ToPerformance(store[id])) ELSE Null

CallGetPerformanceById(p) ==
    /\ Free(p)
    /\ \E id \in CallerIds :
          Begin(p, "getPerformanceById", Str(id), "select", Undefined)

GetPerformanceById(p) ==
    /\ pc[p] = "select"
    /\ \E out \in SingleOutcomes(arg[p].s) :
          /\ Logged(p, "select", arg[p], out)
          /\ IF out = "throw" THEN Finish(p, Throw)
             ELSE Finish(p, Return(FoundPerformance(arg[p].s, out)))
    /\ UNCHANGED <<storeVars, folderVars, op, arg, local, ncalls>>

\* ---- createPerformance
CallCreatePerformance(p) ==
    /\ Free(p)
    /\ \E d \in CreateInputs :
          Begin(p, "createPerformance", Obj(d), "createFolder", Null)

\* CreateFolder whose result is not awaited: the folder is created but
\* driveFolderId is still null when the insert is issued.
CreateFolderNotAwaited(p) ==
    /\ pc[p] = "createFolder"
    /\ \E out \in {"id", "null", "throw"} :
          /\ Logged(p, "createFolder", arg[p].o.title, out)
          /\ IF out = "id"
             THEN /\ nextFolder < MaxFolders
                  /\ nextFolder' = nextFolder + 1
                  /\ folders' = folders \cup {FolderId(nextFolder')}
                  /\ created' = created \cup {FolderId(nextFolder')}
             ELSE UNCHANGED folderVars
          /\ local' = [local EXCEPT ![p] = Null]
    /\ pc' = [pc EXCEPT ![p] = "insert"]
    /\ UNCHANGED <<storeVars, op, arg, result, ncalls>>

\* await googleDriveService.createPerformanceFolder(title), in its own try
CreateFolder(p) ==
    /\ pc[p] = "createFolder"
    /\ \E out \in {"id", "null", "throw"} :
          /\ Logged(p, "createFolder", arg[p].o.title, out)
          /\ IF out = "id"
             THEN /\ nextFolder < MaxFolders
                  /\ nextFolder' = nextFolder + 1
                  /\ folders' = folders \cup {FolderId(nextFolder')}
                  /\ created' = created \cup {FolderId(nextFolder')}
                  /\ local' = [local EXCEPT ![p] = Str(FolderId(nextFolder'))]
             ELSE /\ UNCHANGED folderVars
                  /\ local' = [local EXCEPT ![p] = Null]
    /\ pc' = [pc EXCEPT ![p] = "insert"]
    /\ UNCHANGED <<storeVars, op, arg, result, ncalls>>

\* Insert that deletes the folder of step 1 when the insert fails.
InsertRollsBack(p) ==
    /\ pc[p] = "insert"
    /\ \E out \in {"ok", "error", "throw"} :
          /\ Logged(p, "insert", local[p], out)
          /\ IF out = "ok"
             THEN /\ nextRow < MaxRows
                  /\ nextRow' = nextRow + 1
                  /\ LET id == RowId(nextRow')
                         data == InsertedRow(InsertValues(arg[p].o, local[p]),
                                             id, nextRow')
                     IN  /\ store' = [i \in DOMAIN store \cup {id} |->
                                        IF i = id THEN data ELSE store[i]]
                         /\ inserted' = [i \in DOMAIN inserted \cup {id} |->
                                        IF i = id THEN Identity(data)
                                        ELSE inserted[i]]
                         /\ Finish(p, Return(Obj(ToPerformance(data))))
                  /\ UNCHANGED folders
             ELSE /\ UNCHANGED storeVars
                  /\ folders' = IF local[p] = Null THEN folders
                                ELSE folders \ {local[p].s}
                  /\ Finish(p, Return(Null))
    /\ UNCHANGED <<nextFolder, created, op, arg, local, ncalls>>

\* Insert that takes the folder id from a field shared by all invocations
\* (the id of the folder created last) instead of its own local.
InsertSharedFolder(p) ==
    /\ pc[p] = "insert"
    /\ \E out \in {"ok", "error", "throw"} :
          /\ Logged(p, "insert", local[p], out)
          /\ IF out = "ok"
             THEN /\ nextRow < MaxRows
                  /\ nextRow' = nextRow + 1
                  /\ LET id == RowId(nextRow')
                         shared == IF nextFolder = 0 THEN Null
                                   ELSE Str(FolderId(nextFolder))
                         data == InsertedRow(InsertValues(arg[p].o, shared),
                                             id, nextRow')
                     IN  /\ store' = [i \in DOMAIN store \cup {id} |->
                                        IF i = id THEN data ELSE store[i]]
                         /\ inserted' = [i \in DOMAIN inserted \cup {id} |->
                                        IF i = id THEN Identity(data)
                                        ELSE inserted[i]]
                         /\ Finish(p, Return(Obj(ToPerformance(data))))
             ELSE /\ UNCHANGED storeVars
                  /\ Finish(p, Return(Null))
    /\ UNCHANGED <<folderVars, op, arg, local, ncalls>>

\* Insert that is issued again when it reports an error.
InsertRetries(p) ==
    /\ pc[p] = "insert"
    /\ \E out \in {"ok", "error", "throw"} :
          /\ Logged(p, "insert", local[p], out)
          /\ CASE out = "ok" ->
                    /\ nextRow < MaxRows
                    /\ nextRow' = nextRow + 1
                    /\ LET id == RowId(nextRow')
                           data == InsertedRow(InsertValues(arg[p].o, local[p]),
                                               id, nextRow')
                       IN  /\ store' = [i \in DOMAIN store \cup {id} |->
                                          IF i = id THEN data ELSE store[i]]
                           /\ inserted' = [i \in DOMAIN inserted \cup {id} |->
                                          IF i = id THEN Identity(data)
                                          ELSE inserted[i]]
                           /\ Finish(p, Return(Obj(ToPerformance(data))))
               [] out = "error" ->
                    /\ UNCHANGED storeVars
                    /\ IF Len(calls[p]) < 3
                       THEN UNCHANGED <<pc, result>>
                       ELSE Finish(p, Return(Null))
               [] out = "throw" ->
                    /\ UNCHANGED storeVars
                    /\ Finish(p, Return(Null))
    /\ UNCHANGED <<folderVars, op, arg, local, ncalls>>

\* await insert(...).select().single(), inside the outer try
Insert(p) ==
    /\ pc[p] = "insert"
    /\ \E out \in {"ok", "error", "throw"} :
          /\ Logged(p, "insert", local[p], out)
          /\ IF out = "ok"
             THEN /\ nextRow < MaxRows
                  /\ nextRow' = nextRow + 1
                  /\ LET id == RowId(nextRow')
                         data == InsertedRow(InsertValues(arg[p].o, local[p]),
                                             id, nextRow')
                     IN  /\ store' = [i \in DOMAIN store \cup {id} |->
                                        IF i = id THEN data ELSE store[i]]
                         /\ inserted' = [i \in DOMAIN inserted \cup {id} |->
                                        IF i = id THEN Identity(data)
                                        ELSE inserted[i]]
                         /\ Finish(p, Return(Obj(ToPerformance(data))))
             ELSE /\ UNCHANGED storeVars
                  /\ Finish(p, Return(Null))
    /\ UNCHANGED <<folderVars, op, arg, local, ncalls>>

\* ---- updatePerformance
CallUpdatePerformance(p) ==
    /\ Free(p)
    /\ \E d \in UpdateInputs :
          Begin(p, "updatePerformance", Obj(d), "update", Undefined)

\* await update(updateData).eq("id", id).select().single(), no try around it
Update(p) ==
    /\ pc[p] = "update"
    /\ \E out \in SingleOutcomes(arg[p].o.id) :
          /\ Logged(p, "update", Str(arg[p].o.id), out)
          /\ CASE out = "ok" ->
                    LET id == arg[p].o.id
                        data == UpdatedRow(store[id], UpdateValues(arg[p].o))
                    IN  /\ store' = [store EXCEPT ![id] = data]
                        /\ Finish(p, Return(Obj(ToPerformance(data))))
               [] out = "error" ->
                    /\ UNCHANGED store
                    /\ Finish(p, Return(Null))
               [] out = "throw" ->
                    /\ UNCHANGED store
                    /\ Finish(p, Throw)
    /\ UNCHANGED <<nextRow, inserted, folderVars, op, arg, local, ncalls>>

\* ---- deletePerformance
CallDeletePerformance(p) ==
    /\ Free(p)
    /\ \E id \in CallerIds :
          Begin(p, "deletePerformance", Str(id), "lookup", Undefined)

\* const performance = await this.getPerformanceById(id), inside the try
Lookup(p) ==
    /\ pc[p] = "lookup"
    /\ \E out \in SingleOutcomes(arg[p].s) :
          /\ Logged(p, "select", arg[p], out)
          /\ IF out = "throw"
             THEN /\ Finish(p, Return(Bool(FALSE)))
                  /\ UNCHANGED local
             ELSE LET performance == FoundPerformance(arg[p].s, out)
                      driveFolderId == IF performance = Null THEN Undefined
                                       ELSE performance.o.driveFolderId
                  IN  /\ local' = [local EXCEPT ![p] = performance]
                      /\ pc' = [pc EXCEPT ![p] =
                                  IF Truthy(driveFolderId) THEN "deleteFolder"
                                  ELSE "deleteRow"]
                      /\ UNCHANGED result
    /\ UNCHANGED <<storeVars, folderVars, op, arg, ncalls>>

\* DeleteFolder without its own try: a rejection reaches the outer catch.
DeleteFolderUncaught(p) ==
    /\ pc[p] = "deleteFolder"
    /\ \E out \in {"true", "false", "throw"} :
          /\ Logged(p, "deleteFolder", local[p].o.driveFolderId, out)
          /\ folders' = IF out = "true"
                        THEN folders \ {local[p].o.driveFolderId.s}
                        ELSE folders
          /\ IF out = "throw"
             THEN Finish(p, Return(Bool(FALSE)))
             ELSE /\ pc' = [pc EXCEPT ![p] = "deleteRow"]
                  /\ UNCHANGED result
    /\ UNCHANGED <<storeVars, nextFolder, created, op, arg, local, ncalls>>

\* DeleteFolder called with the id of the record instead of the folder id.
DeleteFolderByRecordId(p) ==
    /\ pc[p] = "deleteFolder"
    /\ \E out \in {"true", "false", "throw"} :
          /\ Logged(p, "deleteFolder", arg[p], out)
          /\ folders' = IF out = "true" THEN folders \ {arg[p].s} ELSE folders
    /\ pc' = [pc EXCEPT ![p] = "deleteRow"]
    /\ UNCHANGED <<storeVars, nextFolder, created, op, arg, local, result, ncalls>>

\* await googleDriveService.deleteFolder(driveFolderId), in its own try
DeleteFolder(p) ==
    /\ pc[p] = "deleteFolder"
    /\ \E out \in {"true", "false", "throw"} :
          /\ Logged(p, "deleteFolder", local[p].o.driveFolderId, out)
          /\ folders' = IF out = "true"
                        THEN folders \ {local[p].o.driveFolderId.s}
                        ELSE folders
    /\ pc' = [pc EXCEPT ![p] = "deleteRow"]
    /\ UNCHANGED <<storeVars, nextFolder, created, op, arg, local, result, ncalls>>

\* DeleteRow outside the try: a rejection reaches the caller.
DeleteRowUncaught(p) ==
    /\ pc[p] = "deleteRow"
    /\ \E out \in {"ok", "error", "throw"} :
          /\ Logged(p, "delete", arg[p], out)
          /\ CASE out = "ok" ->
                    /\ store' = DeletedFrom(store, arg[p].s)
                    /\ Finish(p, Return(Bool(TRUE)))
               [] out = "error" ->
                    /\ UNCHANGED store
                    /\ Finish(p, Return(Bool(FALSE)))
               [] out = "throw" ->
                    /\ UNCHANGED store
                    /\ Finish(p, Throw)
    /\ UNCHANGED <<nextRow, inserted, folderVars, op, arg, local, ncalls>>

\* DeleteRow that reports failure when the delete matched no row.
DeleteRowChecked(p) ==
    /\ pc[p] = "deleteRow"
    /\ \E out \in {"ok", "error", "throw"} :
          /\ Logged(p, "delete", arg[p], out)
          /\ IF out = "ok"
             THEN /\ store' = DeletedFrom(store, arg[p].s)
                  /\ Finish(p, Return(Bool(arg[p].s \in DOMAIN store)))
             ELSE /\ UNCHANGED store
                  /\ Finish(p, Return(Bool(FALSE)))
    /\ UNCHANGED <<nextRow, inserted, folderVars, op, arg, local, ncalls>>

\* DeleteRow that clears the row's folder column when the delete fails.
DeleteRowClearsFolder(p) ==
    /\ pc[p] = "deleteRow"
    /\ \E out \in {"ok", "error", "throw"} :
          /\ Logged(p, "delete", arg[p], out)
          /\ IF out = "ok"
             THEN /\ store' = DeletedFrom(store, arg[p].s)
                  /\ Finish(p, Return(Bool(TRUE)))
             ELSE /\ store' = [i \in DOMAIN store |->
                                 IF i = arg[p].s
                                 THEN [store[i] EXCEPT !.drive_folder_id = Null]
                                 ELSE store[i]]
                  /\ Finish(p, Return(Bool(FALSE)))
    /\ UNCHANGED <<nextRow, inserted, folderVars, op, arg, local, ncalls>>

\* await delete().eq("id", id), inside the try; deleting no row is no error
DeleteRow(p) ==
    /\ pc[p] = "deleteRow"
    /\ \E out \in {"ok", "error", "throw"} :
          /\ Logged(p, "delete", arg[p], out)
          /\ IF out = "ok"
             THEN /\ store' = DeletedFrom(store, arg[p].s)
                  /\ Finish(p, Return(Bool(TRUE)))
             ELSE /\ UNCHANGED store
                  /\ Finish(p, Return(Bool(FALSE)))
    /\ UNCHANGED <<nextRow, inserted, folderVars, op, arg, local, ncalls>>

\* ---------------------------------------------------------- specifications
Next ==
    \E p \in Procs :
        \/ CallGetPerformances(p)
        \/ GetPerformances(p)
        \/ CallGetPerformanceById(p)
        \/ GetPerformanceById(p)
        \/ CallCreatePerformance(p)
        \/ CreateFolder(p)
        \/ Insert(p)
        \/ CallUpdatePerformance(p)
        \/ Update(p)
        \/ CallDeletePerformance(p)
        \/ Lookup(p)
        \/ DeleteFolder(p)
        \/ DeleteRow(p)

Spec == Init /\ [][Next]_vars


\* ------------------------------------------------------------------ claims
Completed(p, operation) == pc[p] = "done" /\ op[p] = operation

\* the external calls of p's invocation to callee f whose outcome is in outs
CallsTo(p, f, outs) ==
    {i \in DOMAIN calls[p] : calls[p][i].f = f /\ calls[p][i].out \in outs}

AnyOutcome == {"ok", "error", "throw", "id", "null", "true", "false"}

\* the invocation of p has just made its last external call, a call to f
Returns(p, at) == pc[p] = at /\ pc'[p] = "done"

\* C1: a deletePerformance whose deleteFolder call answered false or threw
\* still issues the row delete afterwards; when that delete succeeds the row
\* is gone from the store and the invocation returns true.
C1_FolderFailureDoesNotBlockDelete ==
    \A p \in Procs :
        (Completed(p, "deletePerformance")
            /\ CallsTo(p, "deleteFolder", {"false", "throw"}) # {})
        => /\ CallsTo(p, "delete", AnyOutcome) # {}
           /\ (CallsTo(p, "delete", {"ok"}) # {}
                 => /\ result[p] = Return(Bool(TRUE))
                    /\ arg[p].s \notin DOMAIN store)

C1_Witness ==
    \E p \in Procs :
        /\ Completed(p, "deletePerformance")
        /\ CallsTo(p, "deleteFolder", {"false", "throw"}) # {}
        /\ CallsTo(p, "delete", {"ok"}) # {}
        /\ arg[p].s \in DOMAIN inserted
        /\ arg[p].s \notin DOMAIN store
        /\ result[p] = Return(Bool(TRUE))

\* C2: when createFolder answers null or throws and the insert succeeds, the
\* insert adds exactly one row, that row's drive_folder_id is null, and
\* createPerformance returns that row's record with driveFolderId absent.
C2_FolderFailureIsNotFatal ==
    [][\A p \in Procs :
          (Returns(p, "insert")
              /\ calls'[p][1].f = "createFolder"
              /\ calls'[p][1].out \in {"null", "throw"}
              /\ calls'[p][2].out = "ok")
          => \E id \in DOMAIN store' \ DOMAIN store :
                /\ DOMAIN store' = DOMAIN store \cup {id}
                /\ \A i \in DOMAIN store : store'[i] = store[i]
                /\ store'[id].drive_folder_id = Null
                /\ result'[p].k = "return"
                /\ result'[p].v.t = "object"
                /\ result'[p].v.o.id = Str(id)
                /\ result'[p].v.o.driveFolderId = Undefined]_vars

C2_Witness ==
    \E p \in Procs :
        /\ Completed(p, "createPerformance")
        /\ CallsTo(p, "createFolder", {"null", "throw"}) # {}
        /\ CallsTo(p, "insert", {"ok"}) # {}
        /\ result[p].v.t = "object"
        /\ result[p].v.o.driveFolderId = Undefined
        /\ result[p].v.o.id.s \in DOMAIN store
        /\ store[result[p].v.o.id.s].drive_folder_id = Null

\* an id that names no row at any time up to now
NeverStored(id) == id \notin DOMAIN inserted

\* C3 as stated: deletePerformance(id) for an id without a row returns false.
C3_MissingIdReturnsFalse ==
    \A p \in Procs :
        (Completed(p, "deletePerformance") /\ NeverStored(arg[p].s))
        => result[p] = Return(Bool(FALSE))

\* C3 amended: deletePerformance(id) for an id without a row does not throw
\* and calls no deleteFolder; it returns true exactly when the store's delete
\* reported no error (deleting no row is not an error) and false otherwise.
C3_MissingIdReturnsDeleteOutcome ==
    \A p \in Procs :
        (Completed(p, "deletePerformance") /\ NeverStored(arg[p].s))
        => /\ result[p] \in {Return(Bool(TRUE)), Return(Bool(FALSE))}
           /\ CallsTo(p, "deleteFolder", AnyOutcome) = {}
           /\ (result[p] = Return(Bool(TRUE))
                 <=> CallsTo(p, "delete", {"ok"}) # {})

C3_Witness ==
    \E p \in Procs :
        /\ Completed(p, "deletePerformance")
        /\ arg[p] = Str("missing-id")
        /\ NeverStored(arg[p].s)
        /\ CallsTo(p, "delete", {"ok"}) # {}
        /\ result[p] = Return(Bool(TRUE))

\* the sentinel result of each public operation
Sentinel(operation) ==
    CASE operation = "getPerformances" -> Arr(<<>>)
      [] operation = "deletePerformance" -> Bool(FALSE)
      [] OTHER -> Null

\* C4: no invocation completes by throwing, and an invocation whose last
\* external call failed (error value or rejection) returns its sentinel.
C4_NoFailureCrossesBoundary ==
    \A p \in Procs :
        pc[p] = "done"
        => /\ result[p] # Throw
           /\ (calls[p][Len(calls[p])].out \in {"error", "throw"}
                 => result[p] = Return(Sentinel(op[p])))

\* C5: a deletePerformance whose lookup failed (error, no row, rejection)
\* calls no deleteFolder and still issues the row delete.
C5_FailedLookupStillDeletesRow ==
    \A p \in Procs :
        (Completed(p, "deletePerformance") /\ calls[p][1].out # "ok")
        => /\ CallsTo(p, "deleteFolder", AnyOutcome) = {}
           /\ CallsTo(p, "delete", AnyOutcome) # {}

\* C6: the drive_folder_id of every stored row is null or a folder id that
\* createFolder has returned.
C6_FolderIdsAreNeverFabricated ==
    \A id \in DOMAIN store :
        \/ store[id].drive_folder_id = Null
        \/ /\ store[id].drive_folder_id.t = "string"
           /\ store[id].drive_folder_id.s \in created

C6_Witness ==
    \E id \in DOMAIN store :
        /\ store[id].drive_folder_id # Null
        /\ store[id].drive_folder_id.s \in created


\* C7: when the insert of createPerformance fails, the invocation returns
\* null, the store and the folder service stay as they were (the folder of
\* step 1 included), and the invocation has made no deleteFolder call.
C7_InsertFailureLeavesFolder ==
    [][\A p \in Procs :
          (Returns(p, "insert") /\ calls'[p][2].out \in {"error", "throw"})
          => /\ result'[p] = Return(Null)
             /\ store' = store
             /\ folders' = folders
             /\ (local[p] # Null => local[p].s \in folders')
             /\ CallsTo(p, "deleteFolder", AnyOutcome) = {}]_vars

\* a created folder that no stored row refers to, left by a failed create
C7_Witness ==
    \E p \in Procs :
        /\ Completed(p, "createPerformance")
        /\ CallsTo(p, "createFolder", {"id"}) # {}
        /\ CallsTo(p, "insert", {"error", "throw"}) # {}
        /\ result[p] = Return(Null)
        /\ local[p].s \in folders
        /\ \A id \in DOMAIN store : store[id].drive_folder_id # local[p]

\* the input field that carries each mutable column
FieldOfColumn ==
    [title |-> "title", description |-> "description",
     cover_image |-> "coverImage", start_date |-> "startDate",
     end_date |-> "endDate", tagged_users |-> "taggedUsers"]

\* the columns the update input carries a value for
PresentColumns(input) ==
    {c \in DOMAIN FieldOfColumn : input[FieldOfColumn[c]] # Undefined}

\* C8: an updatePerformance step keeps the set of rows, leaves every row
\* with another id unchanged, and leaves unchanged every column of the
\* target row whose field the input omits.
C8_UpdateIsPartial ==
    [][\A p \in Procs :
          Returns(p, "update")
          => /\ DOMAIN store' = DOMAIN store
             /\ \A id \in DOMAIN store :
                   \A c \in Columns :
                       (id # arg[p].o.id \/ c \notin PresentColumns(arg[p].o))
                       => store'[id][c] = store[id][c]]_vars

\* an update that set one column of a row and kept another, non-null one
C8_Witness ==
    \E p \in Procs :
        /\ Completed(p, "updatePerformance")
        /\ result[p].k = "return"
        /\ result[p].v.t = "object"
        /\ arg[p].o.description = Str("x")
        /\ arg[p].o.coverImage = Undefined
        /\ arg[p].o.id \in DOMAIN store
        /\ store[arg[p].o.id].description = Str("x")
        /\ store[arg[p].o.id].cover_image = Str("c")

\* C9: every stored row has the id, created_by and drive_folder_id that its
\* insert wrote, whatever updates were applied since.
C9_IdentityColumnsAreFixed ==
    \A id \in DOMAIN store :
        /\ store[id].id = inserted[id].id
        /\ store[id].created_by = inserted[id].created_by
        /\ store[id].drive_folder_id = inserted[id].drive_folder_id

\* a successful update whose input carried a createdBy other than the row's
C9_Witness ==
    \E p \in Procs :
        /\ Completed(p, "updatePerformance")
        /\ result[p].k = "return"
        /\ result[p].v.t = "object"
        /\ arg[p].o.createdBy = Str("u9")
        /\ arg[p].o.id \in DOMAIN store
        /\ store[arg[p].o.id].created_by # Str("u9")
        /\ store[arg[p].o.id].drive_folder_id # Null

\* C10: the record createPerformance returns after a successful insert has
\* the editable fields of the input (an omitted taggedUsers as the empty
\* sequence) and the id and timestamps of the inserted row.
C10_CreateReturnsInput ==
    \A p \in Procs :
        (Completed(p, "createPerformance") /\ CallsTo(p, "insert", {"ok"}) # {})
        => /\ result[p].k = "return"
           /\ result[p].v.t = "object"
           /\ LET r == result[p].v.o
                  d == arg[p].o
              IN  /\ r.title = d.title
                  /\ r.description = d.description
                  /\ r.coverImage = d.coverImage
                  /\ r.startDate = d.startDate
                  /\ r.endDate = d.endDate
                  /\ r.taggedUsers = IF d.taggedUsers = Undefined
                                     THEN Arr(<<>>) ELSE d.taggedUsers
                  /\ r.id.s \in DOMAIN inserted
                  /\ r.id = inserted[r.id.s].id
                  /\ r.createdAt \in 1 .. nextRow
                  /\ r.updatedAt = r.createdAt


\* the record r shows the tagged_users of its row in the table as a sequence
TagsAreSequence(r, table) ==
    /\ r.taggedUsers.t = "array"
    /\ r.id.s \in DOMAIN table
    /\ r.taggedUsers = IF table[r.id.s].tagged_users = Null THEN Arr(<<>>)
                       ELSE table[r.id.s].tagged_users

\* C11: every record that getPerformances, getPerformanceById,
\* createPerformance or updatePerformance returns has a sequence as its
\* taggedUsers: the stored tagged_users, or the empty sequence when the
\* stored value is null.
C11_TaggedUsersIsASequence ==
    [][\A p \in Procs :
          (pc[p] # "done" /\ pc'[p] = "done" /\ result'[p].k = "return"
              /\ op[p] \in {"getPerformances", "getPerformanceById",
                            "createPerformance", "updatePerformance"})
          => CASE result'[p].v.t = "object" ->
                      TagsAreSequence(result'[p].v.o, store')
               [] result'[p].v.t = "array" ->
                      \A i \in DOMAIN result'[p].v.a :
                          TagsAreSequence(result'[p].v.a[i], store')
               [] OTHER -> TRUE]_vars

\* a list that shows a row with null tagged_users with the empty sequence
C11_Witness ==
    \E p \in Procs :
        /\ Completed(p, "getPerformances")
        /\ result[p].k = "return"
        /\ \E i \in DOMAIN result[p].v.a :
              /\ result[p].v.a[i].taggedUsers = Arr(<<>>)
              /\ result[p].v.a[i].id.s \in DOMAIN store
              /\ store[result[p].v.a[i].id.s].tagged_users = Null

\* C12: the external calls of one invocation are issued one after the
\* other.  createPerformance issues the insert only after createFolder has
\* answered, and the inserted row carries the folder id that call returned
\* (null when it returned none or threw); deletePerformance issues
\* deleteFolder only after the lookup has answered and the row delete only
\* after the deleteFolder call, if there was one, has answered.
C12_CallsAreSequential ==
    [][\A p \in Procs :
          /\ (pc[p] = "createFolder" /\ pc'[p] # "createFolder")
             => /\ calls[p] = <<>>
                /\ Len(calls'[p]) = 1
                /\ calls'[p][1].f = "createFolder"
                /\ pc'[p] = "insert"
                /\ IF calls'[p][1].out = "id"
                   THEN /\ local'[p].t = "string"
                        /\ created' \ created = {local'[p].s}
                   ELSE /\ local'[p] = Null
                        /\ created' = created
          /\ (pc[p] = "insert" /\ pc'[p] = "insert") => local'[p] = local[p]
          /\ (pc[p] = "insert" /\ pc'[p] # "insert")
             => /\ Len(calls[p]) = 1
                /\ calls'[p] = Append(calls[p], calls'[p][2])
                /\ calls'[p][2].f = "insert"
                /\ calls'[p][2].a = local[p]
                /\ \A id \in DOMAIN store' \ DOMAIN store :
                      store'[id].drive_folder_id = local[p]
          /\ (pc[p] = "lookup" /\ pc'[p] # "lookup")
             => /\ calls[p] = <<>>
                /\ Len(calls'[p]) = 1
                /\ calls'[p][1].f = "select"
          /\ (pc[p] = "deleteFolder" /\ pc'[p] # "deleteFolder")
             => /\ Len(calls[p]) = 1
                /\ calls[p][1].out = "ok"
                /\ calls'[p] = Append(calls[p], calls'[p][2])
                /\ calls'[p][2].f = "deleteFolder"
                /\ pc'[p] = "deleteRow"
          /\ (pc[p] = "deleteRow" /\ pc'[p] # "deleteRow")
             => /\ Len(calls[p]) \in {1, 2}
                /\ calls[p][1].f = "select"
                /\ (Len(calls[p]) = 2 => calls[p][2].f = "deleteFolder")
                /\ calls'[p] = Append(calls[p], calls'[p][Len(calls'[p])])
                /\ calls'[p][Len(calls'[p])].f = "delete"]_vars

\* a create whose insert carried the id createFolder had returned, and a
\* delete of that row that went through lookup, deleteFolder and delete
C12_Witness ==
    \E p \in Procs :
        /\ Completed(p, "deletePerformance")
        /\ Len(calls[p]) = 3
        /\ calls[p][1] = CallRec("select", arg[p], "ok")
        /\ calls[p][2].f = "deleteFolder"
        /\ calls[p][2].a = inserted[arg[p].s].drive_folder_id
        /\ calls[p][2].a.s \in created
        /\ calls[p][3].f = "delete"


\* two completed deletePerformance invocations of the same id that both
\* called deleteFolder
DoubleDelete(p, q) ==
    /\ p # q
    /\ Completed(p, "deletePerformance")
    /\ Completed(q, "deletePerformance")
    /\ arg[p] = arg[q]
    /\ CallsTo(p, "deleteFolder", AnyOutcome) # {}
    /\ CallsTo(q, "deleteFolder", AnyOutcome) # {}

\* C13: concurrent deletePerformance invocations of one id are not
\* coordinated: when two of them both looked the row up and called
\* deleteFolder, they called it with the same folder id, and each returns
\* true exactly when its own row delete reported no error, whether or not
\* the other invocation had removed the row already.
C13_DeletesAreNotCoordinated ==
    \A p, q \in Procs :
        DoubleDelete(p, q)
        => /\ calls[p][2].a = calls[q][2].a
           /\ local[p].o.driveFolderId = local[q].o.driveFolderId
           /\ (result[p] = Return(Bool(TRUE))
                 <=> CallsTo(p, "delete", {"ok"}) # {})

\* the double delete: both read the same driveFolderId, both called
\* deleteFolder with it, both returned true
C13_Witness ==
    \E p, q \in Procs :
        /\ DoubleDelete(p, q)
        /\ local[p].o.driveFolderId = local[q].o.driveFolderId
        /\ calls[p][2] = CallRec("deleteFolder", local[p].o.driveFolderId, "true")
        /\ calls[q][2] = CallRec("deleteFolder", local[p].o.driveFolderId, "true")
        /\ result[p] = Return(Bool(TRUE))
        /\ result[q] = Return(Bool(TRUE))

\* C14: no call is retried.  A createPerformance invocation issues at most
\* one createFolder and one insert, a deletePerformance invocation at most
\* one lookup, one deleteFolder and one row delete, every other invocation
\* one store call; so no invocation issues more than three external calls.
C14_NoRetry ==
    \A p \in Procs :
        /\ \A f \in {"select", "insert", "update", "delete",
                     "createFolder", "deleteFolder"} :
              Cardinality(CallsTo(p, f, AnyOutcome)) <= 1
        /\ Len(calls[p]) <= 3
        /\ op[p] = "createPerformance" => Len(calls[p]) <= 2
        /\ op[p] \in {"getPerformances", "getPerformanceById",
                      "updatePerformance"} => Len(calls[p]) <= 1
        /\ pc[p] = "done" => Len(calls[p]) >= 1

\* a delete whose deleteFolder and row delete both failed, each issued once
C14_Witness ==
    \E p \in Procs :
        /\ Completed(p, "deletePerformance")
        /\ Len(calls[p]) = 3
        /\ calls[p][2].out \in {"false", "throw"}
        /\ calls[p][3].out \in {"error", "throw"}
        /\ result[p] = Return(Bool(FALSE))

\* C15: when deleteFolder succeeded and the row delete then fails,
\* deletePerformance returns false, the store is left as it was (the row
\* keeps the drive_folder_id its insert wrote) and the folder is gone.
C15_FailedDeleteLeavesDanglingFolderId ==
    [][\A p \in Procs :
          (Returns(p, "deleteRow")
              /\ CallsTo(p, "deleteFolder", {"true"}) # {}
              /\ calls'[p][3].out \in {"error", "throw"})
          => /\ result'[p] = Return(Bool(FALSE))
             /\ store' = store
             /\ calls[p][2].a.s \notin folders'
             /\ (arg[p].s \in DOMAIN store'
                   => store'[arg[p].s].drive_folder_id
                        = inserted[arg[p].s].drive_folder_id)]_vars

\* a stored row whose drive_folder_id names a deleted folder, after a
\* deletePerformance that returned false
C15_Witness ==
    \E p \in Procs :
        /\ Completed(p, "deletePerformance")
        /\ result[p] = Return(Bool(FALSE))
        /\ CallsTo(p, "deleteFolder", {"true"}) # {}
        /\ arg[p].s \in DOMAIN store
        /\ store[arg[p].s].drive_folder_id = calls[p][2].a
        /\ calls[p][2].a.s \in created \ folders


\* C16: with the folder service returning a fresh id for every folder it
\* creates, no two stored rows have the same non-null drive_folder_id.
C16_FolderIdsAreNotShared ==
    \A i, j \in DOMAIN store :
        (i # j /\ store[i].drive_folder_id # Null)
        => store[i].drive_folder_id # store[j].drive_folder_id

\* two stored rows, each with a folder of its own
C16_Witness ==
    \E i, j \in DOMAIN store :
        /\ i # j
        /\ store[i].drive_folder_id # Null
        /\ store[j].drive_folder_id # Null
        /\ store[i].drive_folder_id # store[j].drive_folder_id

\* the operations that talk only to the record store
StoreOnly == {"getPerformances", "getPerformanceById", "updatePerformance"}

\* C17: every deleteFolder call is made by a deletePerformance(id)
\* invocation, with the driveFolderId of the record its lookup returned for
\* that id, which is the drive_folder_id the row was inserted with;
\* getPerformances, getPerformanceById and updatePerformance call only the
\* store and leave the folder service as it is, and getPerformances and
\* getPerformanceById leave the store as it is.
C17_ReadsAndUpdatesStayInTheStore ==
    [][\A p \in Procs :
          /\ \A i \in DOMAIN calls'[p] :
                calls'[p][i].f = "deleteFolder"
                => /\ op'[p] = "deletePerformance"
                   /\ local'[p].t = "object"
                   /\ local'[p].o.id = arg'[p]
                   /\ calls'[p][i].a = local'[p].o.driveFolderId
                   /\ calls'[p][i].a = inserted'[arg'[p].s].drive_folder_id
          /\ op'[p] \in StoreOnly
             => \A i \in DOMAIN calls'[p] :
                   calls'[p][i].f \in {"select", "update"}
          /\ (op[p] \in StoreOnly /\ pc[p] # "done" /\ pc'[p] = "done")
             => /\ folders' = folders
                /\ created' = created
                /\ (op[p] # "updatePerformance" => store' = store)]_vars

\* a deletePerformance that called deleteFolder with the folder id of its
\* row while the other caller completed a read
C17_Witness ==
    \E p, q \in Procs :
        /\ Completed(p, "deletePerformance")
        /\ CallsTo(p, "deleteFolder", AnyOutcome) # {}
        /\ calls[p][2].a = inserted[arg[p].s].drive_folder_id
        /\ Completed(q, "getPerformanceById")
        /\ calls[q] = <<CallRec("select", arg[q], "ok")>>

====
